---- MODULE Spec2Model ----
(***************************************************************************)
(* The download streamer of the speed test (Cloudflare Pages Function      *)
(* functions/api/download.js) in its four revisions found in the           *)
(* repository, together with the pull-driven ReadableStream that carries   *)
(* its body.                                                               *)
(*                                                                         *)
(*   RevMain  src/functions/api/download.js   pull counts against fileSize *)
(*   Rev000   src/unnamed/part_000            pull counts against the raw  *)
(*                                            `size` query parameter       *)
(*   Rev001   src/unnamed/part_001:252-345    MIN_FILE_SIZE_BYTES = 10 MB  *)
(*   Rev002   src/unnamed/part_002:5-47       fixed fileSize, no parameter *)
(*                                                                         *)
(* Byte counts keep their real values (10 MiB, 250 MiB, 64 KiB chunks).    *)
(* A JavaScript number is a record [nan, v]: Rev000 computes with the raw  *)
(* string, and NaN is one of the values its arithmetic produces.           *)
(* A query string is a sequence of one-character strings over the alphabet *)
(* digits, "+", "-", " ", "a", "b", "c".                                   *)
(***************************************************************************)
EXTENDS Integers, Sequences, FiniteSets, TLC

VARIABLES
    rev,            \* which revision of onRequestGet serves the request
    requestedSize,  \* url.searchParams.get('size'): absent or a string
    fileSize,       \* the resolved size (let fileSize)
    status,         \* status of the Response, 0 while none was returned
    contentLength,  \* the Content-Length header: decimal digits, <<>> if none
    bytesSent,      \* let bytesSent (a JavaScript number)
    state,          \* REQUESTED, STREAMING, CLOSED, ERRORED, CANCELLED
    queue,          \* lengths of the chunks enqueued and not yet taken
    emitted,        \* bytes enqueued so far (sum of the chunk lengths)
    chunks,         \* number of chunks enqueued so far
    lastChunk,      \* length of the chunk enqueued last, -1 if none
    delivered,      \* bytes the transport has taken from the queue
    fill,           \* how the chunk enqueued last was filled, "none" if none
    other,          \* a second request in flight at the same time, if any
    upSize,         \* POST /upload: length of the body the sender sends
    upMax,          \* the sink's configured maximum
    upRead,         \* bytes the sink has read from the body
    upBuffered,     \* bytes of the body the sink holds in memory
    upState,        \* IDLE, READING, DONE, ABORTED
    upStatus,       \* status of the sink's response, 0 while none
    isTesting,      \* the page's state isTesting
    rendered,       \* isTesting as of the last render (button and closure)
    runs,           \* invocations of startTest past its guard, not yet ended
    cpc,            \* where the run waits: idle, ping, fetching, reading, upload, pending
    pings,          \* let pings: round-trip times in ms, Null for a failure
    avgPing,        \* measurePing's Math.round(avgPing), 0 before it is set
    cstatus,        \* the page's state status
    pingM,          \* the page's state ping: "--", "...", "value", "ERR"
    downloadM,      \* the page's state downloadSpeed
    uploadM,        \* the page's state uploadSpeed
    progress,       \* the page's state progress, in whole percents
    showProgress,   \* the page's state showProgress
    received,       \* measureDownload's receivedLength
    phases,         \* the phases the present run has started, in order
    ignored         \* a click has been refused since the last start

streamVars == <<rev, requestedSize, fileSize, status, contentLength,
                bytesSent, state, queue, emitted, chunks, lastChunk,
                delivered, fill>>

\* What a step of this request's stream does not touch.
uploadVars == <<upSize, upMax, upRead, upBuffered, upState, upStatus>>

clientVars == <<isTesting, rendered, runs, cpc, pings, avgPing, cstatus, pingM,
                downloadM, uploadM, progress, showProgress, received,
                phases, ignored>>

restVars == <<other, uploadVars, clientVars>>

vars == <<streamVars, restVars>>

----------------------------------------------------------------------------
(* Bounds of the model *)

\* The chunk counter counts up to MaxPulls and stays there.  The longest
\* stream that terminates has 4001 chunks (Rev000, size=262144001); only the
\* streams of Rev000 that never terminate go on enqueueing beyond it.
MaxPulls == 4001

----------------------------------------------------------------------------
(* Revisions and their configuration *)

RevMain == "download.js"
Rev000 == "part_000"
Rev001 == "part_001"
Rev002 == "part_002"

Revisions == {RevMain, Rev000, Rev001, Rev002}

DEFAULT_FILE_SIZE_BYTES == 10 * 1024 * 1024

MIN_FILE_SIZE_BYTES(r) == IF r = Rev001 THEN 10 * 1024 * 1024 ELSE 1 * 1024

MAX_FILE_SIZE_BYTES(r) ==
    IF r = Rev000 THEN 1000 * 1024 * 1024 ELSE 250 * 1024 * 1024

chunkSize == 64 * 1024

\* The client's expected download size (pages/index.js).
DOWNLOAD_FILE_SIZE_BYTES == 10 * 1024 * 1024

\* new ReadableStream(source) without a queuing strategy: the default
\* strategy counts chunks and has high water mark 1.
HighWaterMark == 1

----------------------------------------------------------------------------
(* JavaScript numbers *)

Num(n) == [nan |-> FALSE, v |-> n]
NaN == [nan |-> TRUE, v |-> 0]

\* a >= b: false when either side is NaN
Ge(a, b) == ~a.nan /\ ~b.nan /\ a.v >= b.v

Sub(a, b) == IF a.nan \/ b.nan THEN NaN ELSE Num(a.v - b.v)

Add(a, b) == IF a.nan \/ b.nan THEN NaN ELSE Num(a.v + b.v)

\* Math.min: NaN when either argument is NaN
MathMin(a, b) ==
    IF a.nan \/ b.nan THEN NaN ELSE IF a.v <= b.v THEN a ELSE b

\* new Uint8Array(n).length: ToIndex(NaN) is 0
ToIndex(n) == IF n.nan THEN 0 ELSE n.v

----------------------------------------------------------------------------
(* Query strings *)

Absent == [present |-> FALSE, text |-> <<>>]
Param(t) == [present |-> TRUE, text |-> t]

Digits == {"0", "1", "2", "3", "4", "5", "6", "7", "8", "9"}

DigitVal(c) ==
    CASE c = "0" -> 0 [] c = "1" -> 1 [] c = "2" -> 2 [] c = "3" -> 3
      [] c = "4" -> 4 [] c = "5" -> 5 [] c = "6" -> 6 [] c = "7" -> 7
      [] c = "8" -> 8 [] c = "9" -> 9

DigitChar(n) ==
    CASE n = 0 -> "0" [] n = 1 -> "1" [] n = 2 -> "2" [] n = 3 -> "3"
      [] n = 4 -> "4" [] n = 5 -> "5" [] n = 6 -> "6" [] n = 7 -> "7"
      [] n = 8 -> "8" [] n = 9 -> "9"

IsWhite(c) == c = " "

RECURSIVE SkipWhite(_)
SkipWhite(s) ==
    IF s # <<>> /\ IsWhite(Head(s)) THEN SkipWhite(Tail(s)) ELSE s

RECURSIVE SkipWhiteEnd(_)
SkipWhiteEnd(s) ==
    IF s # <<>> /\ IsWhite(s[Len(s)])
    THEN SkipWhiteEnd(SubSeq(s, 1, Len(s) - 1))
    ELSE s

HasSign(s) == s # <<>> /\ Head(s) \in {"+", "-"}
SignOf(s) == IF s # <<>> /\ Head(s) = "-" THEN -1 ELSE 1
Unsigned(s) == IF HasSign(s) THEN Tail(s) ELSE s

\* the longest prefix of s made of digits
RECURSIVE DigitPrefix(_)
DigitPrefix(s) ==
    IF s # <<>> /\ Head(s) \in Digits
    THEN <<Head(s)>> \o DigitPrefix(Tail(s))
    ELSE <<>>

\* the value of a sequence of digits, most significant first
RECURSIVE DigitsValue(_, _)
DigitsValue(s, acc) ==
    IF s = <<>> THEN acc ELSE DigitsValue(Tail(s), acc * 10 + DigitVal(Head(s)))

\* parseInt(s, 10): leading white space, a sign, then the digits up to the
\* first character that is not one; NaN when there is no digit.
ParseInt(s) ==
    LET t == SkipWhite(s)
        d == DigitPrefix(Unsigned(t))
    IN  IF d = <<>> THEN NaN ELSE Num(SignOf(t) * DigitsValue(d, 0))

\* ToNumber of a string or null, as the operators >= and - apply it:
\* null and the empty (or blank) string are 0, a signed decimal integer is
\* its value, any other text of the alphabet is NaN.
ToNumber(raw) ==
    IF ~raw.present THEN Num(0)
    ELSE LET t == SkipWhiteEnd(SkipWhite(raw.text))
             u == Unsigned(t)
         IN  IF t = <<>> THEN Num(0)
             ELSE IF u # <<>> /\ DigitPrefix(u) = u
                  THEN Num(SignOf(t) * DigitsValue(u, 0))
                  ELSE NaN

\* if (requestedSize): null and "" are falsy
Truthy(raw) == raw.present /\ raw.text # <<>>

----------------------------------------------------------------------------
(* The size validator *)

InRangeNoUpperBound(r, p) == ~p.nan /\ p.v >= MIN_FILE_SIZE_BYTES(r)

InRangeExclusive(r, p) ==
    ~p.nan /\ p.v > MIN_FILE_SIZE_BYTES(r) /\ p.v < MAX_FILE_SIZE_BYTES(r)

InRange(r, p) ==
    ~p.nan /\ p.v >= MIN_FILE_SIZE_BYTES(r) /\ p.v <= MAX_FILE_SIZE_BYTES(r)

ResolveSize(r, raw) ==
    IF r = Rev002 THEN 10 * 1024 * 1024
    ELSE IF Truthy(raw) /\ InRange(r, ParseInt(raw.text))
         THEN ParseInt(raw.text).v
         ELSE DEFAULT_FILE_SIZE_BYTES

\* The total the pull callback compares bytesSent with.
Total(r, raw, size) == IF r = Rev000 THEN ToNumber(raw) ELSE Num(size)

----------------------------------------------------------------------------
(* Requests *)

RawSizes ==
    { Absent,
      Param(<<>>),
      Param(<<"a", "b", "c">>),
      Param(<<"-", "5">>),
      Param(<<"1", "2", "a", "b", "c">>),
      Param(<<"2", "0", "0", "0", "a", "b", "c">>),
      Param(<<" ", "2", "0", "4", "8">>),
      Param(<<"1", "0", "2", "3">>),
      Param(<<"1", "0", "2", "4">>),
      Param(<<"6", "5", "5", "3", "6">>),
      Param(<<"1", "3", "1", "0", "7", "3">>),
      Param(<<"1", "0", "4", "8", "5", "7", "6">>),
      Param(<<"1", "0", "4", "8", "5", "7", "5", "9">>),
      Param(<<"1", "0", "4", "8", "5", "7", "6", "0">>),
      Param(<<"2", "6", "2", "1", "4", "4", "0", "0", "0">>),
      Param(<<"2", "6", "2", "1", "4", "4", "0", "0", "1">>) }

\* No second request.
NoOther == [state |-> "NONE"]

\* The page after its first render (the useState initial values).
PageLoaded ==
    /\ isTesting = FALSE
    /\ rendered = FALSE
    /\ runs = 0
    /\ cpc = "idle"
    /\ pings = <<>>
    /\ avgPing = 0
    /\ cstatus = "Ready to start test."
    /\ pingM = "--"
    /\ downloadM = "--"
    /\ uploadM = "--"
    /\ progress = 0
    /\ showProgress = FALSE
    /\ received = 0
    /\ phases = <<>>
    /\ ignored = FALSE

\* No upload request.
NoUpload ==
    /\ upSize = 0
    /\ upMax = 0
    /\ upRead = 0
    /\ upBuffered = 0
    /\ upState = "IDLE"
    /\ upStatus = 0

Init ==
    /\ rev \in Revisions
    /\ requestedSize \in RawSizes
    /\ fileSize = DEFAULT_FILE_SIZE_BYTES
    /\ status = 0
    /\ contentLength = <<>>
    /\ bytesSent = Num(0)
    /\ state = "REQUESTED"
    /\ queue = <<>>
    /\ emitted = 0
    /\ chunks = 0
    /\ lastChunk = -1
    /\ delivered = 0
    /\ fill = "none"
    /\ other = NoOther
    /\ NoUpload
    /\ PageLoaded

----------------------------------------------------------------------------
(* Operations *)

\* fileSize.toString(): the decimal digits of the Content-Length header.
RECURSIVE NumberToString(_)
NumberToString(n) ==
    IF n < 10 THEN <<DigitChar(n)>>
    ELSE NumberToString(n \div 10) \o <<DigitChar(n % 10)>>

ContentLengthMismatch(size) == NumberToString(DEFAULT_FILE_SIZE_BYTES)

\* 'Content-Length': fileSize.toString()
ContentLengthHeader(size) == NumberToString(size)

\* The byte count a client reads from the Content-Length header.
DeclaredLength == DigitsValue(contentLength, 0)

\* onRequestGet: validate the size, create the stream, return the Response.
OnRequestGet ==
    /\ state = "REQUESTED"
    /\ fileSize' = ResolveSize(rev, requestedSize)
    /\ bytesSent' = Num(0)
    /\ state' = "STREAMING"
    /\ status' = 200
    /\ contentLength' = ContentLengthHeader(fileSize')
    /\ UNCHANGED <<rev, requestedSize, queue, emitted, chunks, lastChunk,
                   delivered, fill>>
    /\ UNCHANGED restVars

ShouldCallPullAfterCancel ==
    state \in {"STREAMING", "CANCELLED"} /\ Len(queue) < HighWaterMark

ShouldCallPullUnthrottled == state = "STREAMING"

ShouldCallPullWhenDone ==
    state \in {"STREAMING", "ERRORED"} /\ Len(queue) < HighWaterMark

\* The runtime calls pull only on a readable stream that was not closed and
\* whose queue is below the high water mark.
ShouldCallPull == state = "STREAMING" /\ Len(queue) < HighWaterMark

CurrentChunkSizeNoMin(total, sent) == Num(chunkSize)

\* The length pull asks the chunk generator for.
CurrentChunkSize(total, sent) == MathMin(Num(chunkSize), Sub(total, sent))

FinishedStrict(total, sent) == ~total.nan /\ ~sent.nan /\ sent.v > total.v

\* The close test of pull.
Finished(total, sent) == Ge(sent, total)

ErrorStreamCloses == state' = "CLOSED" /\ UNCHANGED queue

\* controller.error(error): the stream is errored and drops its queue.
ErrorStream == state' = "ERRORED" /\ queue' = <<>>

\* generateRandomChunk fills a new Uint8Array with crypto.getRandomValues;
\* Rev002 fills a new Uint8Array with the byte 97 in a loop.
ChunkFill(r) == IF r = Rev002 THEN "constant" ELSE "random"

\* The model's chunk counter.
CountUp(n) == IF n < MaxPulls THEN n + 1 ELSE n

\* pull(controller): one production step.  generateRandomChunk or enqueue
\* may throw (fails); the catch block, or in Rev002 the runtime on the
\* exception leaving pull, errors the stream.
Pull ==
    /\ ShouldCallPull
    /\ LET total == Total(rev, requestedSize, fileSize) IN
       IF Finished(total, bytesSent)
       THEN /\ state' = "CLOSED"
            /\ UNCHANGED <<bytesSent, queue, emitted, chunks, lastChunk,
                           fill>>
       ELSE \E fails \in BOOLEAN :
                 LET n == CurrentChunkSize(total, bytesSent) IN
                 IF fails
                 THEN /\ ErrorStream
                      /\ UNCHANGED <<bytesSent, emitted, chunks, lastChunk,
                                     fill>>
                 ELSE /\ queue' = Append(queue, ToIndex(n))
                      /\ bytesSent' = Add(bytesSent, n)
                      /\ emitted' = emitted + ToIndex(n)
                      /\ chunks' = CountUp(chunks)
                      /\ lastChunk' = ToIndex(n)
                      /\ fill' = ChunkFill(rev)
                      /\ UNCHANGED state
    /\ UNCHANGED <<rev, requestedSize, fileSize, status, contentLength,
                   delivered>>
    /\ UNCHANGED restVars

\* The transport takes the chunk at the head of the queue.
Read ==
    /\ state \in {"STREAMING", "CLOSED"}
    /\ queue # <<>>
    /\ delivered' = delivered + Head(queue)
    /\ queue' = Tail(queue)
    /\ UNCHANGED <<rev, requestedSize, fileSize, status, contentLength,
                   bytesSent, state, emitted, chunks, lastChunk, fill>>
    /\ UNCHANGED restVars

CancelResetsCursor ==
    /\ state = "STREAMING"
    /\ state' = "CANCELLED"
    /\ queue' = <<>>
    /\ bytesSent' = Num(0)
    /\ UNCHANGED <<rev, requestedSize, fileSize, status, contentLength,
                   emitted, chunks, lastChunk, delivered, fill>>
    /\ UNCHANGED restVars

\* cancel(reason): the consumer cancelled or disconnected.  The runtime
\* drops the queue and calls the callback, which only logs.
Cancel ==
    /\ state = "STREAMING"
    /\ state' = "CANCELLED"
    /\ queue' = <<>>
    /\ UNCHANGED <<rev, requestedSize, fileSize, status, contentLength,
                   bytesSent, emitted, chunks, lastChunk, delivered, fill>>
    /\ UNCHANGED restVars

Next == OnRequestGet \/ Pull \/ Read \/ Cancel

Spec == Init /\ [][Next]_vars

\* A production step in which chunk generation and enqueueing succeed.
PullSucceeds == Pull /\ state' # "ERRORED"

\* A request whose transport keeps pulling and reading, on which no chunk
\* generation fails and which the consumer does not cancel.
LiveNext == OnRequestGet \/ PullSucceeds \/ Read

\* The requests the fair specification starts from.
LiveSizes ==
    { Absent,
      Param(<<>>),
      Param(<<"a", "b", "c">>),
      Param(<<"-", "5">>),
      Param(<<"2", "0", "0", "0", "a", "b", "c">>),
      Param(<<"1", "0", "2", "4">>),
      Param(<<"1", "3", "1", "0", "7", "3">>),
      Param(<<"1", "0", "4", "8", "5", "7", "6">>) }

LiveInit == Init /\ requestedSize \in LiveSizes

LiveSpec ==
    /\ LiveInit
    /\ [][LiveNext]_vars
    /\ WF_vars(OnRequestGet)
    /\ WF_vars(PullSucceeds)
    /\ WF_vars(Read)

----------------------------------------------------------------------------
(* Two requests in flight.  Each invocation of onRequestGet has its own    *)
(* requestedSize, fileSize, bytesSent and stream (they are locals of the   *)
(* invocation); `other` holds those of the second invocation, served by    *)
(* the same revision.                                                      *)

TwoSizes ==
    { Param(<<"1", "0", "2", "4">>),
      Param(<<"6", "5", "5", "3", "6">>),
      Param(<<"1", "3", "1", "0", "7", "3">>) }

OtherRequest(raw) ==
    [state |-> "REQUESTED", requestedSize |-> raw,
     fileSize |-> DEFAULT_FILE_SIZE_BYTES, contentLength |-> <<>>,
     bytesSent |-> Num(0), queue |-> <<>>, emitted |-> 0, delivered |-> 0]

TwoInit ==
    /\ rev = RevMain
    /\ requestedSize \in TwoSizes
    /\ fileSize = DEFAULT_FILE_SIZE_BYTES
    /\ status = 0
    /\ contentLength = <<>>
    /\ bytesSent = Num(0)
    /\ state = "REQUESTED"
    /\ queue = <<>>
    /\ emitted = 0
    /\ chunks = 0
    /\ lastChunk = -1
    /\ delivered = 0
    /\ fill = "none"
    /\ other \in {OtherRequest(raw) : raw \in TwoSizes}
    /\ NoUpload
    /\ PageLoaded

\* onRequestGet of the second invocation.
OtherOnRequestGet ==
    /\ other.state = "REQUESTED"
    /\ other' = [other EXCEPT
                   !.state = "STREAMING",
                   !.fileSize = ResolveSize(rev, other.requestedSize),
                   !.contentLength =
                       ContentLengthHeader(
                           ResolveSize(rev, other.requestedSize)),
                   !.bytesSent = Num(0)]
    /\ UNCHANGED <<streamVars, uploadVars, clientVars>>

OtherPullSharedCursor ==
    /\ other.state = "STREAMING" /\ Len(other.queue) < HighWaterMark
    /\ LET total == Total(rev, other.requestedSize, other.fileSize) IN
       IF Finished(total, bytesSent)
       THEN /\ other' = [other EXCEPT !.state = "CLOSED"]
            /\ UNCHANGED bytesSent
       ELSE \E fails \in BOOLEAN :
                 LET n == CurrentChunkSize(total, bytesSent) IN
                 IF fails
                 THEN /\ other' = [other EXCEPT !.state = "ERRORED",
                                                !.queue = <<>>]
                      /\ UNCHANGED bytesSent
                 ELSE /\ other' = [other EXCEPT
                                     !.queue = Append(@, ToIndex(n)),
                                     !.emitted = @ + ToIndex(n)]
                      /\ bytesSent' = Add(bytesSent, n)
    /\ UNCHANGED <<rev, requestedSize, fileSize, status, contentLength,
                   state, queue, emitted, chunks, lastChunk, delivered,
                   fill>>
    /\ UNCHANGED <<uploadVars, clientVars>>

\* pull of the second invocation: the same production step on its own
\* bytesSent, fileSize and controller.
OtherPull ==
    /\ other.state = "STREAMING" /\ Len(other.queue) < HighWaterMark
    /\ LET total == Total(rev, other.requestedSize, other.fileSize) IN
       IF Finished(total, other.bytesSent)
       THEN other' = [other EXCEPT !.state = "CLOSED"]
       ELSE \E fails \in BOOLEAN :
                 LET n == CurrentChunkSize(total, other.bytesSent) IN
                 IF fails
                 THEN other' = [other EXCEPT !.state = "ERRORED",
                                             !.queue = <<>>]
                 ELSE other' = [other EXCEPT
                                  !.queue = Append(@, ToIndex(n)),
                                  !.bytesSent = Add(@, n),
                                  !.emitted = @ + ToIndex(n)]
    /\ UNCHANGED <<streamVars, uploadVars, clientVars>>

\* The transport of the second response takes a chunk.
OtherRead ==
    /\ other.state \in {"STREAMING", "CLOSED"}
    /\ other.queue # <<>>
    /\ other' = [other EXCEPT !.delivered = @ + Head(other.queue),
                              !.queue = Tail(@)]
    /\ UNCHANGED <<streamVars, uploadVars, clientVars>>

\* The consumer of the second response cancels.
OtherCancel ==
    /\ other.state = "STREAMING"
    /\ other' = [other EXCEPT !.state = "CANCELLED", !.queue = <<>>]
    /\ UNCHANGED <<streamVars, uploadVars, clientVars>>

TwoNext ==
    \/ OnRequestGet \/ Pull \/ Read \/ Cancel
    \/ OtherOnRequestGet \/ OtherPull \/ OtherRead \/ OtherCancel

TwoSpec == TwoInit /\ [][TwoNext]_vars

----------------------------------------------------------------------------
(* The upload sink, POST /upload (functions/api/upload.js).  The client     *)
(* (measureUpload) posts UPLOAD_DATA_SIZE_BYTES bytes to it.  The sink reads *)
(* the body chunk by chunk until the body ends or the configured maximum is *)
(* reached, keeps no chunk, and then answers 200.                           *)

UPLOAD_DATA_SIZE_BYTES == 5 * 1024 * 1024

\* Length of the pieces in which the body reaches the sink.
UploadChunk == 64 * 1024

\* The configured maximum is at least the client's payload.
UploadMaxima == {UPLOAD_DATA_SIZE_BYTES, 2 * UPLOAD_DATA_SIZE_BYTES}

UploadSizes ==
    {0, 1, UploadChunk + 1, UPLOAD_DATA_SIZE_BYTES,
     UPLOAD_DATA_SIZE_BYTES + 1, 2 * UPLOAD_DATA_SIZE_BYTES + 1}

\* The stream variables of a page on which no download is in flight.
NoDownload ==
    /\ rev = RevMain
    /\ requestedSize = Absent
    /\ fileSize = DEFAULT_FILE_SIZE_BYTES
    /\ status = 0
    /\ contentLength = <<>>
    /\ bytesSent = Num(0)
    /\ state = "REQUESTED"
    /\ queue = <<>>
    /\ emitted = 0
    /\ chunks = 0
    /\ lastChunk = -1
    /\ delivered = 0
    /\ fill = "none"
    /\ other = NoOther

UploadInit ==
    /\ NoDownload
    /\ upSize \in UploadSizes
    /\ upMax \in UploadMaxima
    /\ upRead = 0
    /\ upBuffered = 0
    /\ upState = "IDLE"
    /\ upStatus = 0
    /\ PageLoaded

Smaller(a, b) == IF a <= b THEN a ELSE b

\* The request arrives: the sink starts reading the body.
UploadStart ==
    /\ upState = "IDLE"
    /\ upState' = "READING"
    /\ UNCHANGED <<upSize, upMax, upRead, upBuffered, upStatus>>
    /\ UNCHANGED <<streamVars, other, clientVars>>

\* What the sink holds after reading a chunk of n bytes when it held b.
HeldAfterReadAccumulates(b, n) == b + n

HeldAfterRead(b, n) == n

\* One read: the next piece of the body, cut at the configured maximum.  The
\* piece read before is dropped.
UploadReadChunk ==
    /\ upState = "READING"
    /\ upRead < upSize /\ upRead < upMax
    /\ LET n == Smaller(UploadChunk, Smaller(upSize, upMax) - upRead) IN
       /\ upRead' = upRead + n
       /\ upBuffered' = HeldAfterRead(upBuffered, n)
    /\ UNCHANGED <<upSize, upMax, upState, upStatus>>
    /\ UNCHANGED <<streamVars, other, clientVars>>

\* The body ended or the maximum was reached: minimal acknowledgment.
UploadRespond ==
    /\ upState = "READING"
    /\ upRead >= upSize \/ upRead >= upMax
    /\ upState' = "DONE"
    /\ upStatus' = 200
    /\ upBuffered' = 0
    /\ UNCHANGED <<upSize, upMax, upRead>>
    /\ UNCHANGED <<streamVars, other, clientVars>>

\* The sender disconnects while the body is being read: the sink aborts and
\* keeps nothing.
UploadDisconnect ==
    /\ upState = "READING"
    /\ upRead < upSize
    /\ upState' = "ABORTED"
    /\ upBuffered' = 0
    /\ UNCHANGED <<upSize, upMax, upRead, upStatus>>
    /\ UNCHANGED <<streamVars, other, clientVars>>

UploadNext ==
    UploadStart \/ UploadReadChunk \/ UploadRespond \/ UploadDisconnect

UploadSpec == UploadInit /\ [][UploadNext]_vars

----------------------------------------------------------------------------
(* The client page, SpeedTestPage (pages/index.js): startTest and the three *)
(* phases it awaits in turn.  A metric is "--", "...", "value" (a number    *)
(* was set) or "ERR".  Each action is one turn of the event loop: the code  *)
(* from one resumption to the next await.                                   *)

PING_COUNT == 5

\* The client's reader has seen the end of the body.
DownloadComplete == state = "CLOSED" /\ queue = <<>>

\* measureDownload: Math.min(100, (receivedLength / DOWNLOAD_FILE_SIZE_BYTES)
\* * 100), its whole percents.
ProgressPercentage(got) ==
    IF got >= DOWNLOAD_FILE_SIZE_BYTES THEN 100
    ELSE (got * 100) \div DOWNLOAD_FILE_SIZE_BYTES

\* xhr.upload.onprogress: Math.min(100, (event.loaded / event.total) * 100)
UploadPercentage(loaded, total) ==
    IF loaded >= total THEN 100 ELSE (loaded * 100) \div total

\* Lengths of the pieces in which reader.read() delivers a body, and the
\* longest body a server sends.
BodyPieces == {DOWNLOAD_FILE_SIZE_BYTES \div 4, DOWNLOAD_FILE_SIZE_BYTES \div 2}
LongestBody == DOWNLOAD_FILE_SIZE_BYTES + DOWNLOAD_FILE_SIZE_BYTES \div 2

\* What xhr.upload.onprogress reports as loaded.
UploadLoaded == {0, UPLOAD_DATA_SIZE_BYTES \div 2, UPLOAD_DATA_SIZE_BYTES}

\* Statuses a server answers with.
HttpStatuses == {200, 204, 404, 500}

ClientInit ==
    /\ NoDownload
    /\ NoUpload
    /\ PageLoaded

StartGuardNone == TRUE

\* The click reaches startTest only if the button is not disabled, and
\* startTest returns at once if the isTesting of its render is true.
StartGuard == ~rendered

\* catch and finally of startTest: the run ends with an error status.
FailRun ==
    /\ cstatus' = "Error"
    /\ isTesting' = FALSE
    /\ runs' = runs - 1
    /\ cpc' = "idle"

\* A click on the start button.  A click that gets through runs startTest
\* up to the first await, which is the first fetch of measurePing; the
\* state updates of a click handler are rendered before the next event is
\* handled.  A refused click changes nothing of the page.
StartTest ==
    /\ IF StartGuard
       THEN /\ isTesting' = TRUE
            /\ rendered' = TRUE
            /\ runs' = runs + 1
            /\ cpc' = "ping"
            /\ pings' = <<>>
            /\ avgPing' = 0
            /\ cstatus' = "Testing Ping..."
            /\ pingM' = "..."
            /\ downloadM' = "--"
            /\ uploadM' = "--"
            /\ progress' = 0
            /\ showProgress' = FALSE
            /\ received' = 0
            /\ phases' = <<"ping">>
            /\ ignored' = FALSE
       ELSE /\ ignored' = TRUE
            /\ UNCHANGED <<isTesting, rendered, runs, cpc, pings, avgPing, cstatus,
                           pingM, downloadM, uploadM, progress,
                           showProgress, received, phases>>
    /\ UNCHANGED <<streamVars, other, uploadVars>>

\* React renders the state set outside an event handler.
Render ==
    /\ rendered # isTesting
    /\ rendered' = isTesting
    /\ UNCHANGED <<isTesting, runs, cpc, pings, cstatus, pingM, downloadM,
                   uploadM, progress, showProgress, received, phases>>
    /\ UNCHANGED <<streamVars, other, uploadVars, ignored, avgPing>>

\* pings.push(null)
Null == -1

\* Round-trip times of a ping request, in ms.
PingTimes == {10, 25}

ValidPingsAll(ps) == ps

\* pings.filter(p => p !== null)
ValidPings(ps) == SelectSeq(ps, LAMBDA p : p # Null)

\* validPings.reduce((a, b) => a + b, 0)
RECURSIVE Reduce(_)
Reduce(ps) == IF ps = <<>> THEN 0 ELSE Reduce(Tail(ps)) + Head(ps)

\* Math.round(sum / n) of a non-negative sum: halves round up.
MathRound(sum, n) == (2 * sum + n) \div (2 * n)

\* validPings.length > 0
PingSucceeded(ps) == Len(ValidPings(ps)) > 0

\* measureDownload up to its fetch.
BeginDownload ==
    /\ cstatus' = "Testing Download..."
    /\ downloadM' = "..."
    /\ showProgress' = TRUE
    /\ progress' = 0
    /\ received' = 0
    /\ cpc' = "fetching"
    /\ phases' = Append(phases, "download")

\* One ping request settles (fetch resolves, whatever the status of the
\* response, or rejects) and the 200 ms pause passes; after the last one
\* measurePing averages or throws.
PingSettles ==
    /\ cpc = "ping"
    /\ Len(pings) < PING_COUNT
    /\ \E p \in PingTimes \cup {Null} :
         /\ pings' = Append(pings, p)
         /\ IF Len(pings') < PING_COUNT
            THEN UNCHANGED <<isTesting, runs, cpc, cstatus, pingM, downloadM,
                             progress, showProgress, received, phases,
                             avgPing>>
            ELSE IF PingSucceeded(pings')
                 THEN /\ avgPing' = MathRound(Reduce(ValidPings(pings')),
                                              Len(ValidPings(pings')))
                      /\ pingM' = "value"
                      /\ BeginDownload
                      /\ UNCHANGED <<isTesting, runs>>
                 ELSE /\ pingM' = "ERR"
                      /\ FailRun
                      /\ UNCHANGED <<downloadM, progress, showProgress,
                                     received, phases, avgPing>>
    /\ UNCHANGED <<rendered, uploadM>>
    /\ UNCHANGED <<streamVars, other, uploadVars, ignored>>

\* catch of measureDownload, then catch and finally of startTest.
FailDownload ==
    /\ downloadM' = "ERR"
    /\ progress' = 0
    /\ FailRun

\* The download fetch settles: it rejects, or resolves with a response that
\* is not ok, or with one whose body is then read.
DownloadResponse ==
    /\ cpc = "fetching"
    /\ \E rejected \in BOOLEAN, code \in HttpStatuses :
         IF ~rejected /\ code >= 200 /\ code < 300
         THEN /\ cpc' = "reading"
              /\ UNCHANGED <<isTesting, runs, cstatus, downloadM, progress>>
         ELSE FailDownload
    /\ UNCHANGED <<rendered, pings, pingM, uploadM, showProgress, received,
                   phases>>
    /\ UNCHANGED <<streamVars, other, uploadVars, ignored, avgPing>>

\* reader.read() resolves with a chunk, or rejects.
DownloadChunk ==
    /\ cpc = "reading"
    /\ \/ \E n \in BodyPieces :
            /\ received + n <= LongestBody
            /\ received' = received + n
            /\ progress' = ProgressPercentage(received')
            /\ UNCHANGED <<isTesting, runs, cpc, cstatus, downloadM>>
       \/ /\ FailDownload
          /\ UNCHANGED received
    /\ UNCHANGED <<rendered, pings, pingM, uploadM, showProgress, phases>>
    /\ UNCHANGED <<streamVars, other, uploadVars, ignored, avgPing>>

DownloadOkAlways(got, zeroDuration) == TRUE

\* durationSeconds === 0 || receivedLength === 0 fails the download.
DownloadOk(got, zeroDuration) == ~zeroDuration /\ got # 0

\* reader.read() resolves with done: the speed is computed, or the test
\* fails; on success measureUpload runs up to xhr.send.
DownloadDone ==
    /\ cpc = "reading"
    /\ \E zeroDuration \in BOOLEAN :
         IF DownloadOk(received, zeroDuration)
         THEN /\ downloadM' = "value"
              /\ cstatus' = "Testing Upload..."
              /\ uploadM' = "..."
              /\ showProgress' = TRUE
              /\ progress' = 0
              /\ cpc' = "upload"
              /\ phases' = Append(phases, "upload")
              /\ UNCHANGED <<isTesting, runs>>
         ELSE /\ FailDownload
              /\ UNCHANGED <<uploadM, showProgress, phases>>
    /\ UNCHANGED <<rendered, pings, pingM, received>>
    /\ UNCHANGED <<streamVars, other, uploadVars, ignored, avgPing>>

\* xhr.upload.onprogress
UploadProgress ==
    /\ cpc = "upload"
    /\ \E loaded \in UploadLoaded, computable \in BOOLEAN :
         progress' = IF computable
                     THEN UploadPercentage(loaded, UPLOAD_DATA_SIZE_BYTES)
                     ELSE progress
    /\ UNCHANGED <<isTesting, rendered, runs, cpc, pings, cstatus, pingM,
                   downloadM, uploadM, showProgress, received, phases>>
    /\ UNCHANGED <<streamVars, other, uploadVars, ignored, avgPing>>

\* xhr.onload: a 2xx status with a measurable duration resolves and
\* startTest completes; anything else rejects.
UploadLoad ==
    /\ cpc = "upload"
    /\ \E code \in HttpStatuses, zeroDuration \in BOOLEAN :
         IF code >= 200 /\ code < 300 /\ ~zeroDuration
         THEN /\ uploadM' = "value"
              /\ progress' = 100
              /\ cstatus' = "Test Complete!"
              /\ isTesting' = FALSE
              /\ runs' = runs - 1
              /\ cpc' = "idle"
         ELSE /\ uploadM' = "ERR"
              /\ FailRun
              /\ UNCHANGED progress
    /\ UNCHANGED <<rendered, pings, pingM, downloadM, showProgress, received,
                   phases>>
    /\ UNCHANGED <<streamVars, other, uploadVars, ignored, avgPing>>

\* xhr.onerror
UploadError ==
    /\ cpc = "upload"
    /\ uploadM' = "ERR"
    /\ progress' = 0
    /\ FailRun
    /\ UNCHANGED <<rendered, pings, pingM, downloadM, showProgress, received,
                   phases>>
    /\ UNCHANGED <<streamVars, other, uploadVars, ignored, avgPing>>

\* The user agent ends the request with an abort event (the user stops the
\* page's loading) or a timeout event: measureUpload sets neither
\* xhr.onabort nor xhr.ontimeout, so its promise is neither resolved nor
\* rejected and startTest stays at its await.
UploadAbort ==
    /\ cpc = "upload"
    /\ cpc' = "pending"
    /\ UNCHANGED <<isTesting, rendered, runs, pings, cstatus, pingM,
                   downloadM, uploadM, progress, showProgress, received,
                   phases>>
    /\ UNCHANGED <<streamVars, other, uploadVars, ignored, avgPing>>

ClientNext ==
    \/ StartTest \/ Render \/ PingSettles
    \/ DownloadResponse \/ DownloadChunk \/ DownloadDone
    \/ UploadProgress \/ UploadLoad \/ UploadError \/ UploadAbort

ClientSpec == ClientInit /\ [][ClientNext]_vars

\* Every request the page has in flight settles, every read of the body
\* resolves or rejects, the upload request ends in one of its ways, and
\* React renders; nothing is assumed of the user's clicks.
ClientLiveSpec ==
    /\ ClientSpec
    /\ WF_vars(Render)
    /\ WF_vars(PingSettles)
    /\ WF_vars(DownloadResponse)
    /\ WF_vars(DownloadChunk \/ DownloadDone)
    /\ WF_vars(UploadLoad \/ UploadError \/ UploadAbort)

----------------------------------------------------------------------------
(* Properties.  Main restricts a property to the current revision,          *)
(* src/functions/api/download.js; C2 ranges over every revision.           *)

Main == rev = RevMain

Responded == state # "REQUESTED"

\* Text that is a decimal integer: an optional sign and digits, nothing
\* else (surrounding blanks allowed).
IsIntegerText(t) ==
    LET u == Unsigned(SkipWhiteEnd(SkipWhite(t)))
    IN  u # <<>> /\ DigitPrefix(u) = u

IntegerParam == requestedSize.present /\ IsIntegerText(requestedSize.text)

RequestedValue == ParseInt(requestedSize.text).v

\* The request carries a valid size: integer text within the bounds.
ValidSize ==
    /\ IntegerParam
    /\ RequestedValue >= MIN_FILE_SIZE_BYTES(rev)
    /\ RequestedValue <= MAX_FILE_SIZE_BYTES(rev)

Ceil(a, b) == (a + b - 1) \div b

RECURSIVE QueuedBytes(_)
QueuedBytes(q) == IF q = <<>> THEN 0 ELSE Head(q) + QueuedBytes(Tail(q))

\* C1: for a valid size S the Content-Length header is S, a chunk is
\* enqueued only while fewer than Content-Length bytes were emitted and never
\* takes the total past it, and the stream is closed only in a state where
\* exactly Content-Length bytes were emitted.
C1_Step ==
    (Main /\ ValidSize) =>
        /\ (chunks' # chunks =>
               /\ state = "STREAMING"
               /\ emitted < DeclaredLength
               /\ emitted' <= DeclaredLength)
        /\ (state' = "CLOSED" =>
               /\ emitted' = DeclaredLength'
               /\ DeclaredLength' = RequestedValue)

C1_ContentLengthEqualsBody == [][C1_Step]_vars

C1_Witness ==
    /\ Main /\ ValidSize /\ state = "CLOSED"
    /\ chunks = 3 /\ emitted = 131073 /\ DeclaredLength = 131073

\* C2: in every revision and for every raw size, the stream never emits more
\* than Content-Length bytes and is closed only when it has emitted exactly
\* Content-Length bytes (the producer counts against the resolved size).
C2_EveryRevisionEmitsContentLength ==
    Responded =>
        /\ emitted <= DeclaredLength
        /\ (state = "CLOSED" => emitted = DeclaredLength)

\* C3: whatever the raw size parameter, the resolved size lies within
\* [MIN_FILE_SIZE_BYTES, MAX_FILE_SIZE_BYTES] and the response has status 200.
C3_ResolvedSizeInBounds ==
    (Main /\ Responded) =>
        /\ fileSize >= MIN_FILE_SIZE_BYTES(rev)
        /\ fileSize <= MAX_FILE_SIZE_BYTES(rev)
        /\ status = 200

C3_Witness ==
    /\ Main /\ Responded /\ status = 200
    /\ Truthy(requestedSize)
    /\ ~InRange(rev, ParseInt(requestedSize.text))
    /\ fileSize = DEFAULT_FILE_SIZE_BYTES

\* C4: the resolved size is the parsed value when the raw size is integer
\* text within the bounds, and DEFAULT_FILE_SIZE_BYTES for every other raw
\* value (absent, text that is not integer text, integer out of bounds).
C4_DefaultUnlessIntegerTextInBounds ==
    (Main /\ Responded) =>
        fileSize = IF ValidSize THEN RequestedValue
                   ELSE DEFAULT_FILE_SIZE_BYTES

\* C5: a production step that fails errors the stream without advancing
\* bytesSent or emitting anything; an errored stream stays errored and
\* nothing more happens on it; and the stream is closed only with all of
\* Content-Length emitted, so a failure never ends in a short normal close.
C5_Step ==
    Main =>
        /\ (state' = "ERRORED" /\ state # "ERRORED" =>
               /\ state = "STREAMING"
               /\ UNCHANGED <<bytesSent, emitted, chunks, delivered>>
               /\ queue' = <<>>)
        /\ (state = "ERRORED" => UNCHANGED vars)
        /\ (state' = "CLOSED" => emitted' = DeclaredLength')

C5_FailureIsTerminalError == [][C5_Step]_vars

C5_Witness ==
    /\ Main /\ state = "ERRORED"
    /\ emitted > 0 /\ emitted < DeclaredLength
    /\ bytesSent = Num(emitted)

\* C6: 0 <= bytesSent <= fileSize in every state, and the stream is closed
\* only with bytesSent = fileSize.
C6_BytesSentWithinTotal ==
    Main =>
        /\ ~bytesSent.nan
        /\ 0 <= bytesSent.v
        /\ bytesSent.v <= fileSize
        /\ (state = "CLOSED" => bytesSent.v = fileSize)

C6_Witness ==
    /\ Main /\ state = "CLOSED"
    /\ bytesSent.v = fileSize /\ fileSize % chunkSize # 0
    /\ chunks > 1

\* C7: every chunk has min(chunkSize, fileSize - bytesSent) bytes, which is
\* between 1 and chunkSize; when a chunk is emitted every chunk before it had
\* chunkSize bytes; and a closed stream has emitted ceil(fileSize/chunkSize)
\* chunks.
C7_Step ==
    Main =>
        /\ (chunks' # chunks =>
               /\ chunks' = chunks + 1
               /\ lastChunk' >= 1
               /\ lastChunk' <= chunkSize
               /\ lastChunk' = fileSize - bytesSent.v \/ lastChunk' = chunkSize
               /\ lastChunk' <= fileSize - bytesSent.v
               /\ emitted' = emitted + lastChunk'
               /\ (chunks > 0 => lastChunk = chunkSize))
        /\ (state' = "CLOSED" => chunks' = Ceil(fileSize', chunkSize))

C7_ChunkLengths == [][C7_Step]_vars

C7_Witness ==
    /\ Main /\ state = "CLOSED"
    /\ fileSize = 131073 /\ chunks = 3 /\ lastChunk = 1

\* C8: the cancelling step and every step after it leave bytesSent, the
\* emitted bytes and the number of chunks as they were: once cancelled, the
\* stream stays cancelled and no production step runs.
C8_Step ==
    Main =>
        /\ (state' = "CANCELLED" =>
               UNCHANGED <<bytesSent, emitted, chunks, lastChunk>>)
        /\ (state = "CANCELLED" => state' = "CANCELLED" /\ queue' = <<>>)

C8_NoProductionAfterCancel == [][C8_Step]_vars

C8_Witness ==
    /\ Main /\ state = "CANCELLED"
    /\ delivered > 0 /\ delivered < fileSize
    /\ emitted < fileSize

\* C9: at most one chunk, hence at most chunkSize bytes, is generated and not
\* yet taken by the transport, whatever the resolved size.
C9_AtMostOneChunkBuffered ==
    Main =>
        /\ Len(queue) <= 1
        /\ QueuedBytes(queue) <= chunkSize
        /\ (state \in {"STREAMING", "CLOSED"} =>
               emitted - delivered = QueuedBytes(queue))

C9_Witness ==
    /\ Main /\ state = "STREAMING"
    /\ Len(queue) = 1
    /\ fileSize = MAX_FILE_SIZE_BYTES(rev)
    /\ chunks > 1000

\* C10: size = MIN and size = MAX resolve to the requested value, declare it
\* as Content-Length and stream exactly that many bytes; size = MAX + 1 and
\* size = MIN - 1 resolve to DEFAULT_FILE_SIZE_BYTES.
C10_Boundaries ==
    (Main /\ Responded /\ IntegerParam) =>
        /\ (RequestedValue \in {MIN_FILE_SIZE_BYTES(rev),
                                MAX_FILE_SIZE_BYTES(rev)} =>
               /\ fileSize = RequestedValue
               /\ DeclaredLength = RequestedValue
               /\ emitted <= RequestedValue
               /\ (state = "CLOSED" => emitted = RequestedValue))
        /\ (RequestedValue \in {MIN_FILE_SIZE_BYTES(rev) - 1,
                                MAX_FILE_SIZE_BYTES(rev) + 1} =>
               fileSize = DEFAULT_FILE_SIZE_BYTES)

C10_Witness ==
    /\ Main /\ IntegerParam /\ state = "CLOSED"
    /\ RequestedValue = MAX_FILE_SIZE_BYTES(rev)
    /\ emitted = MAX_FILE_SIZE_BYTES(rev)

\* C11: in every revision that reads the size parameter, size=1048576 is a
\* valid size: Content-Length is 1048576, every chunk has at most 65536
\* bytes, and the stream closes with exactly 1048576 bytes emitted.
C11_OneMebibyteIsValid ==
    (rev # Rev002 /\ Responded /\ IntegerParam /\ RequestedValue = 1048576) =>
        /\ fileSize = 1048576
        /\ DeclaredLength = 1048576
        /\ lastChunk <= 65536
        /\ emitted <= 1048576
        /\ (state = "CLOSED" => emitted = 1048576)

\* C12: the response starts the stream in STREAMING with bytesSent = 0, and
\* from CLOSED or ERRORED no step emits a chunk, changes bytesSent or
\* changes the state.
C12_Step ==
    Main =>
        /\ (state = "REQUESTED" /\ state' # "REQUESTED" =>
               /\ state' = "STREAMING"
               /\ bytesSent' = Num(0)
               /\ emitted' = 0
               /\ chunks' = 0)
        /\ (state \in {"CLOSED", "ERRORED"} =>
               UNCHANGED <<state, bytesSent, emitted, chunks, lastChunk>>)

C12_TerminalStates == [][C12_Step]_vars

C12_Witness ==
    /\ Main /\ state = "CLOSED" /\ queue = <<>>
    /\ delivered = fileSize /\ chunks > 1

\* C13: whatever the raw size, a stream whose transport keeps pulling, on
\* which no generation fails and which is not cancelled, is eventually
\* CLOSED.
C13_EventuallyClosed == <>(state = "CLOSED")

\* C15: in every revision every emitted chunk was filled by the random
\* source, never with a constant byte.
C15_ChunksAreRandom == chunks > 0 => fill = "random"

\* C17: bytesSent changes only in a step that enqueues one chunk, and then
\* by that chunk's length; the closing step, a failed step and cancel leave
\* it unchanged; the resolved size does not change after validation.
C17_Step ==
    Main =>
        /\ (bytesSent' # bytesSent =>
               /\ state = "STREAMING" /\ state' = "STREAMING"
               /\ Len(queue') = Len(queue) + 1
               /\ chunks' = chunks + 1
               /\ bytesSent' = Num(bytesSent.v + queue'[Len(queue')]))
        /\ (state' # state /\ state' \in {"CLOSED", "ERRORED", "CANCELLED"} =>
               bytesSent' = bytesSent)
        /\ (Responded => fileSize' = fileSize)

C17_BytesSentFrame == [][C17_Step]_vars

C17_Witness ==
    /\ Main /\ state = "CANCELLED"
    /\ bytesSent.v > chunkSize /\ bytesSent.v < fileSize
    /\ fileSize # DEFAULT_FILE_SIZE_BYTES

\* C18: the client's request carries no size parameter, so in every revision
\* the resolved size is the client's DOWNLOAD_FILE_SIZE_BYTES, a completed
\* download has delivered exactly that many bytes, and the client's progress
\* is 100 only once all of them were delivered.
C18_ClientSizeMatchesWorker ==
    (Responded /\ requestedSize = Absent) =>
        /\ fileSize = DOWNLOAD_FILE_SIZE_BYTES
        /\ (DownloadComplete => delivered = DOWNLOAD_FILE_SIZE_BYTES)
        /\ (ProgressPercentage(delivered) = 100 =>
               delivered = DOWNLOAD_FILE_SIZE_BYTES)

\* C14: a step of one request leaves bytesSent, resolved size, state and
\* emitted bytes of the other unchanged, under every interleaving; each of
\* the two streams closes only with its own resolved size emitted, so two
\* requests with the same size X each emit exactly X bytes.
C14_Step ==
    /\ (other' # other =>
           UNCHANGED <<bytesSent, fileSize, state, emitted, queue>>)
    /\ (streamVars' # streamVars => other' = other)
    /\ (state' = "CLOSED" =>
           emitted' = fileSize' /\ fileSize' = RequestedValue)
    /\ (other'.state = "CLOSED" =>
           /\ other'.emitted = other'.fileSize
           /\ other'.fileSize = ParseInt(other'.requestedSize.text).v)

C14_RequestsAreIndependent == [][C14_Step]_vars

C14_Witness ==
    /\ other.state = "CLOSED" /\ state = "CLOSED"
    /\ other.requestedSize = requestedSize
    /\ emitted = 131073 /\ other.emitted = 131073

PhaseOrder == <<"ping", "download", "upload">>

\* C19: a run starts its phases in the order ping, download, upload, each
\* once and each only after the one before it succeeded (ping set a value;
\* download set a value from a non-empty body); a failed phase ends the run
\* with an 'Error: ...' status and no later phase, and 'Test Complete!' is
\* the status only when all three phases set a value.
C19_PhasesInOrder ==
    /\ \E k \in 0..3 : phases = SubSeq(PhaseOrder, 1, k)
    /\ (Len(phases) >= 2 => pingM = "value")
    /\ (Len(phases) = 3 => downloadM = "value" /\ received > 0)
    /\ (pingM = "ERR" => phases = <<"ping">> /\ cstatus = "Error")
    /\ (downloadM = "ERR" =>
           phases = <<"ping", "download">> /\ cstatus = "Error")
    /\ (uploadM = "ERR" => phases = PhaseOrder /\ cstatus = "Error")
    /\ (cstatus = "Error" =>
           /\ cpc = "idle"
           /\ "ERR" \in {pingM, downloadM, uploadM}
           /\ uploadM # "value")
    /\ (cstatus = "Test Complete!" =>
           /\ phases = PhaseOrder
           /\ pingM = "value" /\ downloadM = "value" /\ uploadM = "value")
    /\ (cpc = "idle" /\ phases # <<>> =>
           cstatus \in {"Error", "Test Complete!"})

\* A run whose download failed after its ping succeeded: no upload started.
C19_Witness ==
    /\ cstatus = "Error"
    /\ pingM = "value"
    /\ downloadM = "ERR"
    /\ received > 0
    /\ uploadM = "--"

\* C20: at most one run is in progress; a click made while a run is in
\* progress starts none, so the count of runs rises only from zero, and the
\* one sequence of phases in flight belongs to that run.
C20_Step ==
    /\ runs' \in {0, 1}
    /\ (runs' > runs => runs = 0)
    /\ (runs' = 1 <=> isTesting')
    /\ (runs' = 1 <=> cpc' # "idle")
    /\ (runs = 1 /\ runs' = 1 => phases' \in {phases} \cup
           {Append(phases, ph) : ph \in {"download", "upload"}})

C20_AtMostOneRun == [][C20_Step]_vars

\* A click was refused while the run was uploading.
C20_Witness ==
    /\ ignored
    /\ runs = 1
    /\ cpc = "upload"

\* The sum and the number of the round trips among ps that succeeded.
SumOfSuccesses(ps) ==
    LET RECURSIVE Upto(_)
        Upto(k) == IF k = 0 THEN 0
                   ELSE Upto(k - 1) + (IF ps[k] = Null THEN 0 ELSE ps[k])
    IN  Upto(Len(ps))

NumberOfSuccesses(ps) == Cardinality({k \in 1..Len(ps) : ps[k] # Null})

\* C22: the ping phase is over exactly when PING_COUNT requests have
\* settled, whatever their outcomes; ping is 'ERR' and the run ended with an
\* error exactly when all of them failed, and otherwise ping is the rounded
\* average of the round trips of the requests that succeeded.
C22_PingPhase ==
    /\ Len(pings) <= PING_COUNT
    /\ (cpc = "ping" <=> phases # <<>> /\ Len(pings) < PING_COUNT)
    /\ (pingM = "..." <=> cpc = "ping")
    /\ (pingM = "ERR" <=>
           Len(pings) = PING_COUNT /\ NumberOfSuccesses(pings) = 0)
    /\ (pingM = "ERR" =>
           /\ cstatus = "Error" /\ ~isTesting /\ phases = <<"ping">>)
    /\ (pingM = "value" <=>
           Len(pings) = PING_COUNT /\ NumberOfSuccesses(pings) > 0)
    /\ (pingM = "value" =>
           /\ 2 * avgPing * NumberOfSuccesses(pings)
                  <= 2 * SumOfSuccesses(pings) + NumberOfSuccesses(pings)
           /\ 2 * SumOfSuccesses(pings) + NumberOfSuccesses(pings)
                  < 2 * (avgPing + 1) * NumberOfSuccesses(pings)
           /\ Len(phases) >= 2)

\* Four requests failed and one succeeded: the phase reports that one.
C22_Witness ==
    /\ pingM = "value"
    /\ NumberOfSuccesses(pings) = 1
    /\ pings[2] = 25
    /\ avgPing = 25

\* C23: progress stays within 0..100; it becomes 100 only in a step in
\* which the download or the upload phase completes successfully; a step
\* in which the download fails, or an upload network error, leaves progress
\* 0 and the metric of that phase 'ERR'.
C23_Step ==
    /\ progress \in 0..100
    /\ progress' \in 0..100
    /\ (progress' = 100 /\ progress # 100 =>
           \/ downloadM' = "value" /\ downloadM # "value"
           \/ uploadM' = "value" /\ uploadM # "value")
    /\ (downloadM' = "ERR" /\ downloadM # "ERR" => progress' = 0)
    /\ (UploadError => progress' = 0 /\ uploadM' = "ERR")

C23_ProgressBar == [][C23_Step]_vars

\* C21: every run that has started ends: isTesting is false again and,
\* rendered, the start button is enabled, however the phases and the upload
\* request end.
C21_RunEventuallyEnds == isTesting ~> (~isTesting /\ ~rendered)

====
